---- MODULE Spec2Model ----
(***************************************************************************)
(* A model of the Telnet client connection of plyul/telnet: the byte-level *)
(* stream demultiplexer (processCommands), the option negotiation engine   *)
(* (negotiateOption), the built-in option handlers, and the public         *)
(* operations Read, Write, Close, AddOption and SetWindowSize.             *)
(***************************************************************************)
EXTENDS Integers, Sequences, FiniteSets, TLC

\* ---------------------------------------------------------------- constants
bufferSize == 1024

SE == 240
SB == 250
WILL == 251
WONT == 252
DO == 253
DONT == 254
IAC == 255

BinaryTransmission == 0
Echo == 1
SuppressGoAhead == 3
Status == 5
TerminalType == 24
NegotiateAboutWindowSize == 31
TerminalSpeed == 32
RemoteFlowControl == 33

NONE == 255
IS == 0
SEND == 1

stateData == 0
stateInIAC == 1
stateInSB == 2
stateEscIAC == 3
stateNotReady == 4

\* Errors a call can return.
ErrNil == "nil"
ErrNotReady == "telnet connection is not ready"
ErrWrite == "write error"
ErrEOF == "EOF"
ErrClosed == "use of closed network connection"

\* Option handlers (function values of the source) and the nil handler.
NilHandler == "nil"
HTerminalType == "terminalTypeOptionHandler"
HWindowSize == "negotiateAboutWindowSizeOptionHandler"
HTerminalSpeed == "terminalSpeedOptionHandler"

\* The outcome of os.LookupEnv("TERM") when the variable is not set.
NoTerm == <<-1>>

\* ------------------------------------------------------------------ bounds
\* Longest raw stream the transport delivers, and longest single chunk.
MaxRaw == 3
MaxChunk == 3
\* How many bytes the direct processCommands calls of a behaviour process,
\* unless its first call is given one of the longer inputs.
MaxInput == 3
\* The small caller buffer handed to Read (the other one is bufferSize).
SmallBuf == 1
\* How many AddOption calls a behaviour that only builds the table makes.
MaxAdds == 2

\* How many Write, SetWindowSize and AddOption calls a behaviour makes.
MaxCalls == 1

\* ----------------------------------------------------------------- helpers
Min(a, b) == IF a < b THEN a ELSE b

SeqsUpTo(S, n) == UNION {[1..k -> S] : k \in 0..n}

Take(s, n) == SubSeq(s, 1, Min(n, Len(s)))

\* []byte("115200,115200")
SpeedString == <<49, 49, 53, 50, 48, 48, 44, 49, 49, 53, 50, 48, 48>>

\* Mutant of PutUint16: the two bytes in little-endian order.
PutUint16LittleEndian(v) == LET u == v % 65536 IN <<u % 256, u \div 256>>

\* binary.BigEndian.PutUint16(b, uint16(v))
PutUint16(v) == LET u == v % 65536 IN <<u \div 256, u % 256>>

\* One call of conn.Write as the transport sees it.
connWrite(b, wok) ==
  [wire |-> <<[data |-> b, ok |-> wok]>>,
   err |-> IF wok THEN ErrNil ELSE ErrWrite,
   panic |-> FALSE]

NoEffect == [wire |-> <<>>, err |-> ErrNil, panic |-> FALSE]

\* Mutant of ConnectionWrite: the bytes are escaped for the wire, every IAC
\* doubled.
RECURSIVE EscapeIAC(_)
EscapeIAC(b) ==
  IF b = <<>> THEN <<>>
  ELSE (IF Head(b) = IAC THEN <<IAC, IAC>> ELSE <<Head(b)>>)
         \o EscapeIAC(Tail(b))

ConnectionWriteEscaped(pstate, b, wok) ==
  IF pstate = stateNotReady
  THEN [wire |-> <<>>, err |-> ErrNotReady, panic |-> FALSE]
  ELSE connWrite(EscapeIAC(b), wok)

\* Mutant of ConnectionWrite: the state is not looked at.
ConnectionWriteUnguarded(pstate, b, wok) == connWrite(b, wok)

\* Connection.Write on a connection value whose state is pstate.
ConnectionWrite(pstate, b, wok) ==
  IF pstate = stateNotReady
  THEN [wire |-> <<>>, err |-> ErrNotReady, panic |-> FALSE]
  ELSE connWrite(b, wok)

\* Mutant of sendSB: the frame goes out in two writes, the head IAC SB
\* <option> and then the rest.
sendSBTwoWrites(pstate, option, operation, data, wok) ==
  IF pstate = stateNotReady
  THEN [wire |-> <<>>, err |-> ErrNotReady, panic |-> FALSE]
  ELSE [wire |-> <<[data |-> <<IAC, SB, option>>, ok |-> wok],
                   [data |-> (IF operation # NONE THEN <<operation>> ELSE <<>>)
                               \o data \o <<IAC, SE>>,
                    ok |-> wok]>>,
        err |-> IF wok THEN ErrNil ELSE ErrWrite, panic |-> FALSE]

\* Mutant of sendSB: the operation byte is written whatever it is.
sendSBWithOperation(pstate, option, operation, data, wok) ==
  ConnectionWrite(pstate,
                  <<IAC, SB, option, operation>> \o data \o <<IAC, SE>>, wok)

sendSB(pstate, option, operation, data, wok) ==
  LET result == <<IAC, SB, option>>
                  \o (IF operation # NONE THEN <<operation>> ELSE <<>>)
                  \o data \o <<IAC, SE>>
  IN ConnectionWrite(pstate, result, wok)

terminalTypeOptionHandler(pstate, data, wok, term) ==
  IF Len(data) < 4 THEN [NoEffect EXCEPT !.panic = TRUE]
  ELSE IF data[4] = SEND
       THEN IF term = NoTerm THEN NoEffect
            ELSE sendSB(pstate, TerminalType, IS, term, wok)
       ELSE NoEffect

negotiateAboutWindowSizeOptionHandler(pstate, win, wok) ==
  sendSB(pstate, NegotiateAboutWindowSize, NONE, win, wok)

terminalSpeedOptionHandler(pstate, data, wok) ==
  IF Len(data) < 4 THEN [NoEffect EXCEPT !.panic = TRUE]
  ELSE IF data[4] = SEND
       THEN sendSB(pstate, TerminalSpeed, IS, SpeedString, wok)
       ELSE NoEffect

\* A call through a handler value.
CallHandler(h, pstate, data, win, wok, term) ==
  CASE h = HTerminalType -> terminalTypeOptionHandler(pstate, data, wok, term)
    [] h = HWindowSize -> negotiateAboutWindowSizeOptionHandler(pstate, win, wok)
    [] h = HTerminalSpeed -> terminalSpeedOptionHandler(pstate, data, wok)
    [] OTHER -> [NoEffect EXCEPT !.panic = TRUE]

\* Mutants of DoReply and WillReply: the flag of the other direction decides.
DoReplyPeerDo(option) == IF option.peerDo THEN WILL ELSE WONT

WillReplyWeWill(option) == IF option.weWill THEN DO ELSE DONT

\* The reply verbs negotiateOption writes into data[1].
DoReply(option) == IF option.weWill THEN WILL ELSE WONT

WillReply(option) == IF option.peerDo THEN DO ELSE DONT

\* negotiateOption(data): the writes it makes, the handlers it invokes, the  
\* error it returns, and whether it panics (an index out of range).
negotiateOption(data, opts, pstate, win, wok, term) ==
  LET none == [wire |-> <<>>, hand |-> <<>>, err |-> ErrNil, panic |-> FALSE] IN
  IF Len(data) < 3 THEN [none EXCEPT !.panic = TRUE]
  ELSE
    LET receiverCommand == data[2]
        receivedOptionCode == data[3]
        optionExist == receivedOptionCode \in DOMAIN opts
        option == opts[receivedOptionCode]
    IN
    CASE receiverCommand = DO ->
           IF ~optionExist
           THEN [none EXCEPT !.wire = connWrite([data EXCEPT ![2] = WONT], wok).wire]
           ELSE LET reply == [data EXCEPT ![2] = DoReply(option)]
                    w == connWrite(reply, wok)
                IN IF option.doHandler # NilHandler
                   THEN LET h == CallHandler(option.doHandler, pstate, reply, win, wok, term)
                        IN [wire |-> w.wire \o h.wire,
                            hand |-> <<option.doHandler>>,
                            err |-> h.err, panic |-> h.panic]
                   ELSE [none EXCEPT !.wire = w.wire, !.err = w.err]
      [] receiverCommand = WILL ->
           IF ~optionExist
           THEN [none EXCEPT !.wire = connWrite([data EXCEPT ![2] = DONT], wok).wire]
           ELSE LET w == connWrite([data EXCEPT ![2] = WillReply(option)], wok)
                IN [none EXCEPT !.wire = w.wire, !.err = w.err]
      [] receiverCommand = SB ->
           IF optionExist /\ option.sbHandler # NilHandler
           THEN LET h == CallHandler(option.sbHandler, pstate, data, win, wok, term)
                IN [wire |-> h.wire, hand |-> <<option.sbHandler>>,
                    err |-> h.err, panic |-> h.panic]
           ELSE none
      [] OTHER -> none

\* ------------------------------------------------------- the demultiplexer
\* The running state of one processCommands call: the connection state it
\* works on, its local commandBuffer, the bytes written to outputData, the
\* transport writes made, every buffer dispatched to negotiateOption (with
\* what that call did), the error returned and whether the call panicked.
NewCall(pstate) ==
  [state |-> pstate, cmd |-> <<>>, out |-> <<>>, wire |-> <<>>,
   disp |-> <<>>, err |-> ErrNil, panic |-> FALSE]

\* if err := p.negotiateOption(commandBuffer); err != nil { return err }
\* commandBuffer = commandBuffer[:0]; p.state = stateData
Dispatch(m, ctx) ==
  LET r == negotiateOption(m.cmd, ctx.opts, m.state, ctx.win, ctx.wok, ctx.term)
      d == [data |-> m.cmd, wire |-> r.wire, hand |-> r.hand,
            err |-> r.err, panic |-> r.panic]
      m1 == [m EXCEPT !.wire = @ \o r.wire, !.disp = Append(@, d)]
  IN IF r.panic THEN [m1 EXCEPT !.panic = TRUE]
     ELSE IF r.err # ErrNil THEN [m1 EXCEPT !.err = r.err]
     ELSE [m1 EXCEPT !.cmd = <<>>, !.state = stateData]

\* Mutant of InData: every byte of the command range starts a command.
InDataCommandRange(m, b) ==
  IF b >= SE
  THEN [m EXCEPT !.state = stateInIAC, !.cmd = Append(@, b)]
  ELSE [m EXCEPT !.out = Append(@, b)]

\* case stateData
InData(m, b) ==
  IF b = IAC
  THEN [m EXCEPT !.state = stateInIAC, !.cmd = Append(@, b)]
  ELSE [m EXCEPT !.out = Append(@, b)]

\* Mutant of InIAC: the escaped IAC is not written to outputData.
InIACDropEscape(m, b, ctx) ==
  LET m1 == [m EXCEPT !.cmd = Append(@, b)] IN
  IF b \in {WILL, WONT, DO, DONT} THEN m1
  ELSE IF b = IAC THEN [m1 EXCEPT !.state = stateData]
  ELSE IF b = SB THEN [m1 EXCEPT !.state = stateInSB]
  ELSE Dispatch(m1, ctx)

\* case stateInIAC
InIAC(m, b, ctx) ==
  LET m1 == [m EXCEPT !.cmd = Append(@, b)] IN
  IF b \in {WILL, WONT, DO, DONT} THEN m1
  ELSE IF b = IAC THEN [m1 EXCEPT !.out = Append(@, b), !.state = stateData]
  ELSE IF b = SB THEN [m1 EXCEPT !.state = stateInSB]
  ELSE Dispatch(m1, ctx)

\* case stateInSB
InSB(m, b) ==
  [m EXCEPT !.state = IF b = IAC THEN stateEscIAC ELSE @, !.cmd = Append(@, b)]

\* case stateEscIAC
InEscIAC(m, b, ctx) ==
  LET m1 == [m EXCEPT !.cmd = Append(@, b),
                      !.state = IF b = IAC THEN stateInSB ELSE @]
  IN IF b = SE THEN Dispatch(m1, ctx) ELSE m1

\* Mutant of ProcessByte: no case for stateNotReady, its bytes pass as data.
ProcessByteUnguarded(m, b, ctx) ==
  CASE m.state = stateNotReady -> [InData(m, b) EXCEPT !.state = stateNotReady]
    [] m.state = stateData -> InData(m, b)
    [] m.state = stateInIAC -> InIAC(m, b, ctx)
    [] m.state = stateInSB -> InSB(m, b)
    [] m.state = stateEscIAC -> InEscIAC(m, b, ctx)

\* One iteration of the loop over buffer.Bytes().
ProcessByte(m, b, ctx) ==
  CASE m.state = stateNotReady -> [m EXCEPT !.err = ErrNotReady]
    [] m.state = stateData -> InData(m, b)
    [] m.state = stateInIAC -> InIAC(m, b, ctx)
    [] m.state = stateInSB -> InSB(m, b)
    [] m.state = stateEscIAC -> InEscIAC(m, b, ctx)

RECURSIVE ProcessFrom(_, _, _, _)
ProcessFrom(m, input, i, ctx) ==
  IF i > Len(input) \/ m.err # ErrNil \/ m.panic THEN m
  ELSE ProcessFrom(ProcessByte(m, input[i], ctx), input, i + 1, ctx)

\* processCommands(buffer, outputData) on a connection in state pstate.
processCommands(pstate, input, ctx) == ProcessFrom(NewCall(pstate), input, 1, ctx)

\* ------------------------------------------------------------------- state
VARIABLES
  state,      \* Connection.state
  options,    \* Connection.options: option code -> telnetOption
  winSize,    \* Connection.winSize
  closed,     \* conn.Close() has been called on the transport
  writeOK,    \* the transport still accepts writes
  eof,        \* the transport has reported end-of-stream
  raw,        \* every byte the transport has handed to conn.Read so far
  wire,       \* every conn.Write call so far: [data, ok]
  rd,         \* the Read call in progress: its copy of the Connection value
  delivered,  \* the plain bytes the Read calls have returned so far
  dispatched, \* every buffer handed to negotiateOption so far
  pc,         \* the last direct processCommands call and what it did
  ret,        \* the last public call that returned
  panicked,   \* the program has panicked (index out of range)
  minBuf,     \* the smallest buffer a Read call was given so far
  calls,      \* Write, SetWindowSize and AddOption calls made
  fed,        \* bytes given to direct processCommands calls
  registered, \* option code -> the arguments of the last AddOption for it
  inflight    \* calls of concurrent tasks that are part-way through

vars == <<state, options, winSize, closed, writeOK, eof, raw, wire, rd,
          delivered, dispatched, pc, ret, panicked, minBuf, calls, fed,
          registered, inflight>>

telnetOption(weWill, peerDo, sbHandler, doHandler) ==
  [weWill |-> weWill, peerDo |-> peerDo,
   sbHandler |-> sbHandler, doHandler |-> doHandler]

\* The option table Connect registers.
ConnectOptions ==
  (BinaryTransmission :> telnetOption(FALSE, FALSE, NilHandler, NilHandler))
  @@ (Echo :> telnetOption(FALSE, TRUE, NilHandler, NilHandler))
  @@ (SuppressGoAhead :> telnetOption(TRUE, TRUE, NilHandler, NilHandler))
  @@ (Status :> telnetOption(FALSE, FALSE, NilHandler, NilHandler))
  @@ (TerminalType :> telnetOption(TRUE, TRUE, HTerminalType, NilHandler))
  @@ (NegotiateAboutWindowSize :> telnetOption(TRUE, TRUE, NilHandler, HWindowSize))
  @@ (TerminalSpeed :> telnetOption(TRUE, TRUE, HTerminalSpeed, NilHandler))
  @@ (RemoteFlowControl :> telnetOption(FALSE, FALSE, NilHandler, NilHandler))

IdleRead ==
  [active |-> FALSE, pstate |-> stateData, hadWin |-> FALSE, buf |-> 0,
   out |-> <<>>, reads |-> 0, afterClose |-> FALSE]

NoCall ==
  [via |-> "none", pre |-> stateData, input |-> <<>>, out |-> <<>>,
   wire |-> <<>>, disp |-> <<>>, err |-> ErrNil, post |-> stateData,
   panic |-> FALSE, opts |-> ConnectOptions, term |-> NoTerm]

Returned(op, arg, n, data, err, w, reads, sawEOF, afterClose) ==
  [op |-> op, arg |-> arg, n |-> n, data |-> data, err |-> err, wire |-> w,
   reads |-> reads, sawEOF |-> sawEOF, afterClose |-> afterClose]

\* No call is part-way through. writes: the transport writes the
\* processCommands call of the Read in progress has still to make; busy, err,
\* panic: that call and how it ends; header: how the Read's copy of the
\* Connection saw the winSize slice; resize: the old and new bytes of a
\* SetWindowSize that has stored and not yet sent.
NoFlight ==
  [writes |-> <<>>, busy |-> FALSE, err |-> ErrNil, panic |-> FALSE,
   header |-> "whole", resize |-> <<>>]

NoReturn == Returned("none", <<>>, 0, <<>>, ErrNil, <<>>, 0, FALSE, FALSE)

\* Connect: the transport is dialled, the built-in options are registered,
\* the state is stateData.
Init ==
  /\ state = stateData
  /\ options = ConnectOptions
  /\ winSize = <<>>
  /\ closed = FALSE
  /\ writeOK = TRUE
  /\ eof = FALSE
  /\ raw = <<>>
  /\ wire = <<>>
  /\ rd = IdleRead
  /\ delivered = <<>>
  /\ dispatched = <<>>
  /\ pc = NoCall
  /\ ret = NoReturn
  /\ panicked = FALSE
  /\ minBuf = bufferSize
  /\ calls = 0
  /\ registered = <<>>
  /\ inflight = NoFlight
  /\ fed = 0

\* ---------------------------------------------------------- input domains
\* Caller buffers of Read.
BufLens == {SmallBuf, bufferSize}

\* Bytes the peer sends: IAC, DO and the NAWS option code (the last two are
\* plain data when no IAC precedes them).
RawBytes == {NegotiateAboutWindowSize, DO, IAC}

\* "Hello telnet", the stream of TestConnect.
HelloTelnet == <<72, 101, 108, 108, 111, 32, 116, 101, 108, 110, 101, 116>>

\* What one conn.Read can hand over once n bytes have arrived: any short
\* chunk the stream bound allows, or the whole of a longer stream.
Chunks(n) ==
  {c \in SeqsUpTo(RawBytes, MaxChunk) : c # <<>> /\ n + Len(c) <= MaxRaw}
    \cup (IF n = 0 THEN {HelloTelnet} ELSE {})

\* Values of the TERM environment variable.
Terms == {NoTerm, <<120>>}

\* What the application writes.
AppData == {<<66, IAC>>}

\* Window sizes passed to SetWindowSize.
WindowSizes == {<<80, 24>>, <<300, 65535>>}

\* Option registrations made after Connect.
AddedCodes == {88}
AddedSb == {NilHandler}
AddedDo == {NilHandler, HWindowSize}

\* Codes registered again and again: one Connect has configured, one new.
TableCodes == {Echo, 88}

\* Inputs of direct processCommands calls: every sequence over a core
\* alphabet, every negotiation command, and some longer streams.
CoreBytes == {65, DO, IAC}
OptionBytes == {BinaryTransmission, Echo, SuppressGoAhead, 7,
                NegotiateAboutWindowSize, 88, DO}
Commands == {<<IAC, v, x>> : v \in {WILL, WONT, DO, DONT}, x \in OptionBytes}
LongInputs ==
  {<<112, 108, 97, 105, 110, 32, 100, 97, 116, 97>>,
   <<72, IAC, IAC, 116, 101, 108>>,
   <<SE, SB, WILL, 0, DONT>>,
   <<IAC, IAC, IAC, IAC>>,
   <<IAC, 241>>,
   <<IAC, IAC, IAC, DO, 7>>,
   <<65, IAC, DO, 7, 66>>,
   <<IAC, SB, TerminalType, SEND>>,
   <<IAC, SB, TerminalType, SEND, IAC>>,
   <<IAC, SB, TerminalType, SEND, IAC, SE>>,
   <<IAC, SB, TerminalType, IAC, IAC, SE>>,
   <<IAC, SB, TerminalType, IAC, 65, SE>>,
   <<IAC, SB, TerminalType, IS, 120, IAC, SE>>,
   <<IAC, SB, TerminalSpeed, SEND, IAC, SE>>,
   <<IAC, SB, TerminalSpeed, IS, IAC, SE>>,
   <<IAC, SB, 7, SEND, IAC, SE>>,
   <<IAC, SB, NegotiateAboutWindowSize, 0, 80, 0, 24, IAC, SE>>}
Inputs(n) ==
  SeqsUpTo(CoreBytes, MaxInput - n)
    \cup (IF n = 0 THEN Commands \cup LongInputs ELSE {})

\* ----------------------------------------------------------------- actions
Context(win, term) ==
  [opts |-> options, win |-> win, wok |-> writeOK /\ ~closed, term |-> term]

\* What a direct call did; term is the TERM setting os.LookupEnv gave the
\* terminal type handler, if the call reached it.
CallRecord(pstate, input, m, term) ==
  [via |-> "direct", pre |-> pstate, input |-> input, out |-> m.out,
   wire |-> m.wire, disp |-> m.disp, err |-> m.err, post |-> m.state,
   panic |-> m.panic, opts |-> options,
   term |-> IF \E i \in DOMAIN m.disp : m.disp[i].hand = <<HTerminalType>>
            THEN term ELSE NoTerm]

\* Read, up to the loop: the value receiver copies the Connection.
Read ==
  /\ ~panicked /\ ~rd.active
  /\ \E n \in BufLens :
       /\ minBuf' = Min(minBuf, n)
       /\ IF state = stateNotReady
          THEN /\ ret' = Returned("Read", <<n>>, 0, <<>>, ErrNotReady, <<>>, 0,
                                  FALSE, closed)
               /\ rd' = rd
          ELSE /\ rd' = [active |-> TRUE, pstate |-> state,
                         hadWin |-> Len(winSize) = 4, buf |-> n, out |-> <<>>,
                         reads |-> 0, afterClose |-> closed]
               /\ ret' = ret
  /\ UNCHANGED <<state, options, winSize, closed, writeOK, eof, raw, wire,
                 delivered, dispatched, pc, panicked, calls, fed, registered,
                 inflight>>

\* Read returns n bytes of outputData and err.
ReadReturns(outputData, err, reads, sawEOF) ==
  LET n == Min(Len(outputData), rd.buf) IN
  /\ ret' = Returned("Read", <<rd.buf>>, n, Take(outputData, n), err, <<>>,
                     reads, sawEOF, rd.afterClose)
  /\ delivered' = delivered \o Take(outputData, n)
  /\ rd' = IdleRead

\* Mutant of ReturnsNow: Read returns after every chunk.
ReturnsAlways(err, n) == TRUE

\* if err != nil { return n, err } after processCommands; if n > 0 { return n, nil }
ReturnsNow(err, n) == err # ErrNil \/ n > 0

\* One iteration of Read's loop: conn.Read hands over a chunk, reports
\* end-of-stream, or fails because the transport was closed.
ReadLoop(chunks) ==
  /\ ~panicked /\ rd.active
  /\ \/ \E c \in chunks, term \in Terms :
          /\ ~closed /\ ~eof
          /\ LET win == IF rd.hadWin THEN winSize ELSE <<>>
                 m == processCommands(rd.pstate, c, Context(win, term))
                 outputData == rd.out \o m.out
                 n == Min(Len(outputData), rd.buf)
             IN /\ raw' = raw \o c
                /\ wire' = wire \o m.wire
                /\ dispatched' = dispatched \o m.disp
                /\ panicked' = m.panic
                /\ IF m.panic
                   THEN UNCHANGED <<rd, ret, delivered>>
                   ELSE IF ReturnsNow(m.err, n)
                   THEN ReadReturns(outputData, m.err, rd.reads + 1, FALSE)
                   ELSE /\ rd' = [rd EXCEPT !.pstate = m.state,
                                            !.out = outputData,
                                            !.reads = @ + 1]
                        /\ UNCHANGED <<ret, delivered>>
          /\ UNCHANGED <<eof, pc>>
     \/ /\ ~closed
        /\ eof' = TRUE
        /\ ReadReturns(rd.out, ErrEOF, rd.reads + 1, TRUE)
        /\ UNCHANGED <<raw, wire, dispatched, pc, panicked>>
     \/ /\ closed
        /\ ReadReturns(rd.out, ErrClosed, rd.reads + 1, FALSE)
        /\ UNCHANGED <<eof, raw, wire, dispatched, pc, panicked>>
  /\ UNCHANGED <<state, options, winSize, closed, writeOK, minBuf, calls,
                 fed, registered, inflight>>

Write ==
  /\ ~panicked /\ calls < MaxCalls
  /\ \E b \in AppData :
       LET r == ConnectionWrite(state, b, writeOK /\ ~closed) IN
       /\ wire' = wire \o r.wire
       /\ ret' = Returned("Write", b, IF r.err = ErrNil THEN Len(b) ELSE 0,
                          <<>>, r.err, r.wire, 0, FALSE, closed)
  /\ calls' = calls + 1
  /\ UNCHANGED <<state, options, winSize, closed, writeOK, eof, raw, rd,
                 delivered, dispatched, pc, panicked, minBuf, fed, registered,
                 inflight>>

\* Mutant of CloseState: Close leaves the state as Connect set it.
CloseStateKept == stateData

\* p.state = stateNotReady
CloseState == stateNotReady

Close ==
  /\ ~panicked
  /\ state' = CloseState
  /\ closed' = TRUE
  /\ ret' = Returned("Close", <<>>, 0, <<>>,
                     IF closed THEN ErrClosed ELSE ErrNil, <<>>, 0, FALSE,
                     closed)
  /\ UNCHANGED <<options, winSize, writeOK, eof, raw, wire, rd, delivered,
                 dispatched, pc, panicked, minBuf, calls, fed, registered,
                 inflight>>

\* p.options[optionCode] = telnetOption{...}: a record that is there already
\* is kept, whatever the new one says.
StoreOptionOnce(opts, optionCode, o) ==
  [c \in DOMAIN opts \cup {optionCode} |->
     IF c \in DOMAIN opts THEN opts[c] ELSE o]

\* p.options[optionCode] = telnetOption{...}
StoreOption(opts, optionCode, o) ==
  [c \in DOMAIN opts \cup {optionCode} |-> IF c = optionCode THEN o ELSE opts[c]]

\* AddOption for one of the given codes, up to a number of calls.
AddOptionCall(codes, limit) ==
  /\ ~panicked /\ calls < limit
  /\ \E optionCode \in codes, weWill \in BOOLEAN, peerDo \in BOOLEAN,
        sbHandler \in AddedSb, doHandler \in AddedDo :
       /\ options' = StoreOption(options, optionCode,
                                 telnetOption(weWill, peerDo, sbHandler,
                                              doHandler))
       /\ registered' =
            [c \in DOMAIN registered \cup {optionCode} |->
               IF c = optionCode
               THEN [weWill |-> weWill, peerDo |-> peerDo,
                     sbHandler |-> sbHandler, doHandler |-> doHandler]
               ELSE registered[c]]
       /\ ret' = Returned("AddOption", <<optionCode>>, 0, <<>>, ErrNil, <<>>,
                          0, FALSE, closed)
  /\ calls' = calls + 1
  /\ UNCHANGED <<state, winSize, closed, writeOK, eof, raw, wire, rd,
                 delivered, dispatched, pc, panicked, minBuf, fed, inflight>>

AddOption == AddOptionCall(AddedCodes, MaxCalls)

\* The four bytes SetWindowSize stores.
WindowBytes(width, height) == PutUint16(width) \o PutUint16(height)

SetWindowSize ==
  /\ ~panicked /\ calls < MaxCalls
  /\ \E size \in WindowSizes :
       LET width == size[1]
           height == size[2]
           win == WindowBytes(width, height)
           r == negotiateAboutWindowSizeOptionHandler(state, win,
                                                      writeOK /\ ~closed)
       IN /\ winSize' = win
          /\ wire' = wire \o r.wire
          /\ ret' = Returned("SetWindowSize", <<width, height>>, 0, <<>>,
                             ErrNil, r.wire, 0, FALSE, closed)
  /\ calls' = calls + 1
  /\ UNCHANGED <<state, options, closed, writeOK, eof, raw, rd, delivered,
                 dispatched, pc, panicked, minBuf, fed, registered, inflight>>

\* The peer resets the connection: writes fail from now on.
TransportBreak ==
  /\ ~panicked /\ writeOK
  /\ writeOK' = FALSE
  /\ UNCHANGED <<state, options, winSize, closed, eof, raw, wire, rd,
                 delivered, dispatched, pc, ret, panicked, minBuf, calls,
                 fed, registered, inflight>>

\* processCommands called on the Connection itself by code of the package
\* (as TestProcessCommands does).
ProcessCommandsCall ==
  /\ ~panicked /\ fed < MaxInput
  /\ \E input \in Inputs(fed), term \in Terms :
       LET m == processCommands(state, input, Context(winSize, term)) IN
       /\ state' = m.state
       /\ wire' = wire \o m.wire
       /\ dispatched' = dispatched \o m.disp
       /\ pc' = CallRecord(state, input, m, term)
       /\ panicked' = m.panic
       /\ fed' = fed + Len(input)
  /\ UNCHANGED <<options, winSize, closed, writeOK, eof, raw, rd, delivered,
                 ret, minBuf, calls, registered, inflight>>

\* The public operations, the peer sending data.
Next ==
  \/ Read
  \/ ReadLoop(Chunks(Len(raw)))
  \/ Write
  \/ Close
  \/ SetWindowSize
  \/ TransportBreak

Spec == Init /\ [][Next]_vars

\* processCommands and the negotiation engine under every option table,
\* connection state and transport condition: the package's own callers.
NextPkg ==
  \/ ProcessCommandsCall
  \/ AddOption
  \/ Close
  \/ TransportBreak

SpecPkg == Init /\ [][NextPkg]_vars

\* The life of a connection whose state the package's own callers have
\* moved, the peer silent.
NextLife ==
  \/ ProcessCommandsCall
  \/ Close
  \/ Read
  \/ ReadLoop({})

SpecLife == Init /\ [][NextLife]_vars

\* The option table under repeated registration.
NextOpt ==
  \/ AddOptionCall(TableCodes, MaxAdds)
  \/ Close

SpecOpt == Init /\ [][NextOpt]_vars

\* ------------------------------------------------- tasks side by side
\* One task in Read, another in Write or SetWindowSize, their steps
\* interleaved between transport calls. The transport serialises the write
\* calls of the tasks: each call's bytes go out whole.

\* What the copy of the Connection made for Read's value receiver can hold
\* for winSize: the slice as it is, or, while the first SetWindowSize is
\* assigning the slice, the nil slice, the new one or a mix of the two.
Headers ==
  IF inflight.resize # <<>> /\ inflight.resize[1] = <<>>
  THEN {"nil", "whole", "torn"}
  ELSE {IF Len(winSize) = 4 THEN "whole" ELSE "nil"}

ReadCall ==
  /\ ~panicked /\ ~rd.active
  /\ \E n \in BufLens, seen \in Headers :
       /\ minBuf' = Min(minBuf, n)
       /\ IF state = stateNotReady
          THEN /\ ret' = Returned("Read", <<n>>, 0, <<>>, ErrNotReady, <<>>, 0,
                                  FALSE, closed)
               /\ UNCHANGED <<rd, inflight>>
          ELSE /\ rd' = [active |-> TRUE, pstate |-> state,
                         hadWin |-> seen = "whole", buf |-> n, out |-> <<>>,
                         reads |-> 0, afterClose |-> closed]
               /\ inflight' = [inflight EXCEPT !.header = seen]
               /\ ret' = ret
  /\ UNCHANGED <<state, options, winSize, closed, writeOK, eof, raw, wire,
                 delivered, dispatched, pc, panicked, calls, fed, registered>>

\* A write of the window size handler: its payload is read from winSize
\* when the handler runs.
IsWindowFrame(data) ==
  Len(data) >= 3 /\ data[2] = SB /\ data[3] = NegotiateAboutWindowSize

\* p.conn.Read(rawData) and processCommands on the chunk; the transport
\* writes the call makes are made one by one in the steps that follow.
ReadChunk(chunks) ==
  /\ ~panicked /\ rd.active /\ ~inflight.busy
  /\ \E c \in chunks, term \in Terms :
       LET m == processCommands(rd.pstate, c, Context(<<>>, term)) IN
       /\ raw' = raw \o c
       /\ dispatched' = dispatched \o m.disp
       /\ rd' = [rd EXCEPT !.pstate = m.state, !.out = rd.out \o m.out,
                           !.reads = @ + 1]
       /\ inflight' =
            [inflight EXCEPT
               !.writes = [i \in DOMAIN m.wire |->
                             [data |-> m.wire[i].data, ok |-> m.wire[i].ok,
                              built |-> ~IsWindowFrame(m.wire[i].data)]],
               !.busy = TRUE, !.err = m.err, !.panic = m.panic]
  /\ UNCHANGED <<state, options, winSize, closed, writeOK, eof, wire,
                 delivered, pc, ret, panicked, minBuf, calls, fed, registered>>

\* The bytes a read of winSize can give while SetWindowSize stores new into
\* it: each byte the old or the new one.
Torn(old, new) ==
  {<<a, b, c, d>> : a \in {old[1], new[1]}, b \in {old[2], new[2]},
                    c \in {old[3], new[3]}, d \in {old[4], new[4]}}

\* What the window size handler running in Read reads from w.winSize.
WinSeen ==
  IF ~rd.hadWin THEN {<<>>}
  ELSE IF inflight.resize = <<>> THEN {winSize}
  ELSE Torn(IF inflight.resize[1] = <<>> THEN <<0, 0, 0, 0>>
            ELSE inflight.resize[1],
            inflight.resize[2])

\* sendSB in the window size handler builds its frame from w.winSize; a
\* slice whose header was copied half assigned faults when it is read.
ReadBuildFrame ==
  /\ ~panicked /\ inflight.busy
  /\ inflight.writes # <<>> /\ ~Head(inflight.writes).built
  /\ IF inflight.header = "torn"
     THEN panicked' = TRUE /\ UNCHANGED inflight
     ELSE /\ \E payload \in WinSeen :
               LET r == sendSB(rd.pstate, NegotiateAboutWindowSize, NONE,
                               payload, Head(inflight.writes).ok)
               IN inflight' =
                    [inflight EXCEPT
                       !.writes = [i \in DOMAIN r.wire |->
                                     [data |-> r.wire[i].data,
                                      ok |-> r.wire[i].ok, built |-> TRUE]]
                                    \o Tail(inflight.writes)]
          /\ UNCHANGED panicked
  /\ UNCHANGED <<state, options, winSize, closed, writeOK, eof, raw, wire, rd,
                 delivered, dispatched, pc, ret, minBuf, calls, fed,
                 registered>>

\* One p.conn.Write call of the Read task.
ReadEmit ==
  /\ ~panicked /\ inflight.busy
  /\ inflight.writes # <<>> /\ Head(inflight.writes).built
  /\ wire' = Append(wire, [data |-> Head(inflight.writes).data,
                           ok |-> Head(inflight.writes).ok])
  /\ inflight' = [inflight EXCEPT !.writes = Tail(@)]
  /\ UNCHANGED <<state, options, winSize, closed, writeOK, eof, raw, rd,
                 delivered, dispatched, pc, ret, panicked, minBuf, calls, fed,
                 registered>>

\* processCommands has returned: Read returns or reads the transport again.
ReadChunkDone ==
  /\ ~panicked /\ inflight.busy /\ inflight.writes = <<>>
  /\ panicked' = inflight.panic
  /\ inflight' = [inflight EXCEPT !.busy = FALSE, !.err = ErrNil,
                                  !.panic = FALSE]
  /\ IF inflight.panic
     THEN UNCHANGED <<rd, ret, delivered>>
     ELSE IF ReturnsNow(inflight.err, Min(Len(rd.out), rd.buf))
     THEN ReadReturns(rd.out, inflight.err, rd.reads, FALSE)
     ELSE UNCHANGED <<rd, ret, delivered>>
  /\ UNCHANGED <<state, options, winSize, closed, writeOK, eof, raw, wire,
                 dispatched, pc, minBuf, calls, fed, registered>>

\* SetWindowSize up to its two PutUint16 stores.
SetWindowSizeStore ==
  /\ ~panicked /\ calls < MaxCalls /\ inflight.resize = <<>>
  /\ \E size \in WindowSizes :
       LET win == WindowBytes(size[1], size[2]) IN
       /\ winSize' = win
       /\ inflight' = [inflight EXCEPT !.resize = <<winSize, win>>]
  /\ calls' = calls + 1
  /\ UNCHANGED <<state, options, closed, writeOK, eof, raw, wire, rd,
                 delivered, dispatched, pc, ret, panicked, minBuf, fed,
                 registered>>

\* SetWindowSize's call of the window size handler: one frame.
SetWindowSizeSend ==
  /\ ~panicked /\ inflight.resize # <<>>
  /\ LET r == negotiateAboutWindowSizeOptionHandler(state, winSize,
                                                    writeOK /\ ~closed)
     IN wire' = wire \o r.wire
  /\ inflight' = [inflight EXCEPT !.resize = <<>>]
  /\ UNCHANGED <<state, options, winSize, closed, writeOK, eof, raw, rd,
                 delivered, dispatched, pc, ret, panicked, minBuf, calls, fed,
                 registered>>

NextConc ==
  \/ ReadCall
  \/ ReadChunk(Chunks(Len(raw)))
  \/ ReadBuildFrame
  \/ ReadEmit
  \/ ReadChunkDone
  \/ Write
  \/ SetWindowSizeStore
  \/ SetWindowSizeSend

SpecConc == Init /\ [][NextConc]_vars

\* ------------------------------------------------------------------ claims
Range(s) == {s[i] : i \in DOMAIN s}

WireData(w) == [i \in DOMAIN w |-> w[i].data]

DispData(d) == [i \in DOMAIN d |-> d[i].data]

Handlers(d) == {i \in DOMAIN d : d[i].hand # <<>>}

\* Every IAC of s is half of an IAC IAC pair.
RECURSIVE IACsDoubled(_, _)
IACsDoubled(s, i) ==
  IF i > Len(s) THEN TRUE
  ELSE IF s[i] # IAC THEN IACsDoubled(s, i + 1)
  ELSE i < Len(s) /\ s[i + 1] = IAC /\ IACsDoubled(s, i + 2)

\* s with every IAC IAC pair replaced by one 255.
RECURSIVE Collapsed(_, _)
Collapsed(s, i) ==
  IF i > Len(s) THEN <<>>
  ELSE IF s[i] = IAC /\ i < Len(s) /\ s[i + 1] = IAC
       THEN <<IAC>> \o Collapsed(s, i + 2)
       ELSE <<s[i]>> \o Collapsed(s, i + 1)

\* C1: chunking independence. While no write has failed, the transport is
\* open and every Read had a buffer that holds a whole chunk, the plain bytes
\* delivered and the commands dispatched are those of processing the whole
\* raw stream read so far in one piece (whenever that is defined).
C1_ChunkingIndependence ==
  LET whole == processCommands(stateData, raw, Context(winSize, NoTerm)) IN
  (writeOK /\ ~closed /\ minBuf = bufferSize /\ ~whole.panic)
    => /\ ~panicked
       /\ delivered \o rd.out = whole.out
       /\ DispData(dispatched) = DispData(whole.disp)

\* C2: pass-through. A processCommands call started in stateData on an
\* input without IAC writes exactly the input to outputData, writes nothing
\* to the transport, dispatches nothing, returns nil and leaves stateData.
C2_PassThrough ==
  (pc.via # "none" /\ pc.pre = stateData /\ IAC \notin Range(pc.input))
    => /\ pc.out = pc.input
       /\ pc.wire = <<>>
       /\ pc.disp = <<>>
       /\ pc.err = ErrNil
       /\ ~pc.panic
       /\ pc.post = stateData

C2_Witness ==
  /\ pc.via = "direct" /\ pc.pre = stateData
  /\ pc.input = <<SE, SB, WILL, 0, DONT>>
  /\ pc.out = <<SE, SB, WILL, 0, DONT>>

\* C3: escaping. A processCommands call started in stateData on an input
\* whose IAC bytes all come in IAC IAC pairs writes the input with every pair
\* collapsed to one 255 to outputData, writes nothing to the transport and
\* ends in stateData.
C3_Escaping ==
  (pc.via # "none" /\ pc.pre = stateData /\ IACsDoubled(pc.input, 1))
    => /\ pc.out = Collapsed(pc.input, 1)
       /\ pc.wire = <<>>
       /\ pc.disp = <<>>
       /\ pc.err = ErrNil
       /\ ~pc.panic
       /\ pc.post = stateData

C3_Witness ==
  /\ pc.via = "direct" /\ pc.pre = stateData
  /\ pc.input = <<72, IAC, IAC, 116, 101, 108>>
  /\ pc.out = <<72, 255, 116, 101, 108>>

\* C4: IAC DO X for an unconfigured X (here an X that is not itself one of
\* the bytes SB..IAC), received in stateData after plain data and escaped
\* IACs, makes exactly one transport write, IAC WONT X, invokes no handler,
\* adds no plain data and returns to stateData.
C4_UnconfiguredDoAnywhere ==
  \A k \in 0..Len(pc.input) :
    LET before == SubSeq(pc.input, 1, k)
        command == SubSeq(pc.input, k + 1, Len(pc.input))
    IN (/\ pc.via # "none" /\ pc.pre = stateData
        /\ IACsDoubled(before, 1)
        /\ Len(command) = 3 /\ command[1] = IAC /\ command[2] = DO
        /\ command[3] \notin DOMAIN pc.opts /\ command[3] \notin SB..IAC)
         => /\ WireData(pc.wire) = <<<<IAC, WONT, command[3]>>>>
            /\ Handlers(pc.disp) = {}
            /\ pc.out = Collapsed(before, 1)
            /\ ~pc.panic
            /\ pc.post = stateData

\* The 3-byte writes among the writes of one negotiateOption call.
Replies(w) == SelectSeq(WireData(w), LAMBDA b : Len(b) = 3)

\* C5: every command IAC DO X with X configured that reaches the negotiation
\* engine is answered by exactly one 3-byte reply, written first: IAC WILL X
\* when weWill is set and IAC WONT X when it is not, whatever peerDo is.
C5_DoReplyFollowsWeWill ==
  \A i \in DOMAIN pc.disp :
    LET d == pc.disp[i] IN
    (Len(d.data) = 3 /\ d.data[1] = IAC /\ d.data[2] = DO
       /\ d.data[3] \in DOMAIN pc.opts)
      => LET reply == <<IAC, IF pc.opts[d.data[3]].weWill THEN WILL ELSE WONT,
                        d.data[3]>>
         IN /\ Replies(d.wire) = <<reply>>
            /\ d.wire[1].data = reply

C5_Witness ==
  /\ pc.via = "direct"
  /\ 88 \in DOMAIN pc.opts /\ pc.opts[88].weWill /\ ~pc.opts[88].peerDo
  /\ DispData(pc.disp) = <<<<IAC, DO, 88>>>>
  /\ WireData(pc.disp[1].wire)[1] = <<IAC, WILL, 88>>

\* C6: every command IAC WILL X that reaches the negotiation engine causes
\* exactly one transport write, IAC DO X when X is configured with peerDo
\* set and IAC DONT X otherwise (peerDo clear, or X not configured), whatever
\* weWill is, and no handler is invoked.
C6_WillReplyFollowsPeerDo ==
  \A i \in DOMAIN pc.disp :
    LET d == pc.disp[i] IN
    (Len(d.data) = 3 /\ d.data[1] = IAC /\ d.data[2] = WILL)
      => LET X == d.data[3]
             verb == IF X \in DOMAIN pc.opts /\ pc.opts[X].peerDo
                     THEN DO ELSE DONT
         IN /\ WireData(d.wire) = <<<<IAC, verb, X>>>>
            /\ d.hand = <<>>

C6_Witness ==
  /\ pc.via = "direct"
  /\ 88 \in DOMAIN pc.opts /\ pc.opts[88].weWill /\ ~pc.opts[88].peerDo
  /\ pc.opts[88].doHandler = HWindowSize
  /\ DispData(pc.disp) = <<<<IAC, WILL, 88>>>>
  /\ WireData(pc.wire) = <<<<IAC, DONT, 88>>>>

\* C7: a processCommands call in stateNotReady with a non-empty input
\* returns the not-ready error, writes nothing to outputData or the
\* transport, dispatches nothing and leaves the state stateNotReady.
C7_NotReadyRejects ==
  (pc.via # "none" /\ pc.pre = stateNotReady /\ pc.input # <<>>)
    => /\ pc.err = ErrNotReady
       /\ pc.out = <<>>
       /\ pc.wire = <<>>
       /\ pc.disp = <<>>
       /\ ~pc.panic
       /\ pc.post = stateNotReady

C7_Witness ==
  /\ pc.via = "direct" /\ pc.pre = stateNotReady
  /\ pc.input = <<65, IAC, DO, 7, 66>>
  /\ pc.err = ErrNotReady

\* C8: once Close has been called the state is stateNotReady for good, and
\* every Read called after it returns 0 and the not-ready error without one
\* transport read, whatever the state was before Close.
C8_ReadAfterClose ==
  /\ closed => state = stateNotReady
  /\ rd.active => ~rd.afterClose
  /\ (ret.op = "Read" /\ ret.afterClose)
       => ret.n = 0 /\ ret.err = ErrNotReady /\ ret.reads = 0

C8_Witness ==
  /\ pc.via = "direct" /\ pc.post = stateEscIAC
  /\ closed
  /\ ret.op = "Read" /\ ret.afterClose /\ ret.err = ErrNotReady

\* C9: a Read that returns no error returns at least one byte; a Read whose
\* transport read reports end-of-stream returns 0 and EOF; and while the
\* stream read so far holds no IAC and every Read had a buffer as large as
\* that stream, the bytes delivered are exactly the stream.
C9_ReadDelivers ==
  /\ (ret.op = "Read" /\ ret.err = ErrNil) => ret.n > 0
  /\ (ret.op = "Read" /\ ret.sawEOF) => ret.n = 0 /\ ret.err = ErrEOF
  /\ (IAC \notin Range(raw) /\ minBuf >= Len(raw))
       => ~panicked /\ delivered = raw /\ rd.out = <<>>

C9_Witness ==
  /\ raw = HelloTelnet /\ delivered = HelloTelnet
  /\ eof /\ ret.op = "Read" /\ ret.n = 0 /\ ret.err = ErrEOF

\* C10: SetWindowSize(w, h) with both in 0..65535 stores the bytes
\* w div 256, w mod 256, h div 256, h mod 256 and, on a connection that is
\* ready, makes exactly one transport write: IAC SB 31, those bytes, IAC SE.
C10_SetWindowSize ==
  (ret.op = "SetWindowSize"
     /\ ret.arg[1] \in 0..65535 /\ ret.arg[2] \in 0..65535)
    => LET w == ret.arg[1]
           h == ret.arg[2]
           bytes == <<w \div 256, w % 256, h \div 256, h % 256>>
       IN /\ winSize = bytes
          /\ ~ret.afterClose
               => WireData(ret.wire)
                    = <<<<IAC, SB, 31>> \o bytes \o <<IAC, SE>>>>

C10_Witness ==
  /\ ret.op = "SetWindowSize" /\ ret.arg = <<80, 24>> /\ ~ret.afterClose
  /\ WireData(ret.wire) = <<<<255, 250, 31, 0, 80, 0, 24, 255, 240>>>>

\* C11: after any sequence of AddOption calls the table holds one record for
\* every code Connect or AddOption registered; the record of a code AddOption
\* was called for carries the flags and handlers of the last such call, and
\* the record of every other code is the one Connect stored.
C11_LastAddOptionWins ==
  /\ DOMAIN options = DOMAIN ConnectOptions \cup DOMAIN registered
  /\ \A c \in DOMAIN options :
       options[c] = IF c \in DOMAIN registered
                    THEN telnetOption(registered[c].weWill,
                                      registered[c].peerDo,
                                      registered[c].sbHandler,
                                      registered[c].doHandler)
                    ELSE ConnectOptions[c]

\* Two AddOption calls were made, the later one replacing the record Connect
\* stored for Echo, next to a record for the new code.
C11_Witness ==
  /\ calls = 2
  /\ DOMAIN registered = TableCodes
  /\ ret.op = "AddOption" /\ ret.arg = <<Echo>>
  /\ options[Echo] # ConnectOptions[Echo]
  /\ options[Echo] # options[88]

\* A step in which a Write call is made and returns.
C12_WriteStep == calls' = calls + 1 /\ ret'.op = "Write"

\* C12: a Write(b) on a connection that is ready makes exactly one transport
\* write, of b as it is; a Write after Close makes none and returns 0 and the
\* not-ready error; either way the state, the option table and the window
\* size stay as they were.
C12_WriteFrame ==
  [][C12_WriteStep
       => /\ state' = state /\ options' = options /\ winSize' = winSize
          /\ (~closed /\ state # stateNotReady)
               => /\ wire' = Append(wire, [data |-> ret'.arg, ok |-> writeOK])
                  /\ WireData(ret'.wire) = <<ret'.arg>>
          /\ closed
               => /\ wire' = wire
                  /\ ret'.wire = <<>>
                  /\ ret'.n = 0 /\ ret'.err = ErrNotReady]_vars

\* A Write of bytes that hold an IAC reached the transport unchanged.
C12_Witness ==
  /\ ret.op = "Write" /\ ~ret.afterClose
  /\ ret.arg = <<66, IAC>> /\ ret.n = 2 /\ ret.err = ErrNil
  /\ WireData(ret.wire) = <<<<66, IAC>>>>

\* C13: every buffer handed to negotiateOption has at least 3 bytes, starts
\* with IAC and is either IAC <WILL|WONT|DO|DONT> <option> or a block
\* IAC SB <option> ... IAC SE, and no input makes the engine index past the
\* end of the buffer (the program never panics).
C13_WellFormedDispatch ==
  /\ ~panicked
  /\ \A i \in DOMAIN dispatched :
       LET data == dispatched[i].data
           n == Len(data)
       IN /\ n >= 3
          /\ data[1] = IAC
          /\ \/ n = 3 /\ data[2] \in {WILL, WONT, DO, DONT}
             \/ /\ n >= 5 /\ data[2] = SB
                /\ data[n - 1] = IAC /\ data[n] = SE

\* C14: a command IAC <verb> <option> that follows an escaped IAC IAC pair
\* in the input of one processCommands call from stateData is dispatched as
\* exactly its 3 bytes and gets the reply it gets without the pair before it.
C14_EscapeDiscardsBuffer ==
  (/\ pc.via = "direct" /\ pc.pre = stateData
   /\ Len(pc.input) = 5
   /\ SubSeq(pc.input, 1, 3) = <<IAC, IAC, IAC>>
   /\ pc.input[4] \in {WILL, WONT, DO, DONT}
   /\ pc.input[5] \notin SB..IAC)
    => LET command == SubSeq(pc.input, 3, 5)
           alone == processCommands(stateData, command,
                                    [opts |-> pc.opts, win |-> winSize,
                                     wok |-> TRUE, term |-> NoTerm])
       IN /\ pc.out = <<IAC>>
          /\ DispData(pc.disp) = <<command>>
          /\ WireData(pc.wire) = WireData(alone.wire)
          /\ pc.post = stateData

\* Where the block that s opens ends: the index of the first SE that comes
\* right after an IAC that is not the second byte of an IAC IAC pair, from
\* index i on (esc: the byte before i is such an IAC); 0 if there is none.
RECURSIVE BlockEnd(_, _, _)
BlockEnd(s, i, esc) ==
  IF i > Len(s) THEN 0
  ELSE IF esc
       THEN IF s[i] = SE THEN i ELSE BlockEnd(s, i + 1, FALSE)
       ELSE BlockEnd(s, i + 1, s[i] = IAC)

\* C15: a block opened by IAC SB is dispatched once, as the whole buffer
\* IAC SB <option> ... IAC SE, when and only when an SE comes right after an
\* IAC that is not the second byte of an IAC IAC pair: neither IAC IAC SE
\* nor IAC <other byte> SE ends it. After the dispatch the state is stateData.
C15_BlockEndsAtIACSE ==
  (/\ pc.via = "direct" /\ pc.pre = stateData
   /\ Len(pc.input) >= 2 /\ SubSeq(pc.input, 1, 2) = <<IAC, SB>>)
    => LET end == BlockEnd(pc.input, 3, FALSE) IN
       IF end = 0
       THEN pc.disp = <<>> /\ pc.post \in {stateInSB, stateEscIAC}
       ELSE /\ pc.disp # <<>>
            /\ pc.disp[1].data = SubSeq(pc.input, 1, end)
            /\ (end = Len(pc.input) /\ pc.err = ErrNil)
                 => Len(pc.disp) = 1 /\ pc.post = stateData

\* C16: when the transport refuses the reply to the first command of an
\* input, an IAC DO or IAC WILL for any option, the processCommands call
\* dispatches nothing more and returns the write error, with the plain
\* bytes that came before the command as its output.
C16_ReplyWriteErrorReturned ==
  (/\ pc.via = "direct" /\ pc.pre = stateData
   /\ pc.wire # <<>> /\ ~pc.wire[1].ok
   /\ IAC \in Range(pc.input))
    => LET k == CHOOSE i \in DOMAIN pc.input :
                  /\ pc.input[i] = IAC
                  /\ \A j \in 1..(i - 1) : pc.input[j] # IAC
       IN (/\ k + 2 <= Len(pc.input)
           /\ pc.input[k + 1] \in {DO, WILL}
           /\ pc.input[k + 2] \notin SB..IAC)
            => /\ pc.err = ErrWrite
               /\ Len(pc.disp) = 1
               /\ pc.out = SubSeq(pc.input, 1, k - 1)
               /\ ~pc.panic

\* C17: a doHandler runs after the reply has been written, and every
\* IAC WILL 31 the transport sees is followed at once by one write
\* IAC SB 31 <4 bytes> IAC SE whose 4 bytes are a width and a height in
\* big-endian order, with no operation byte.
C17_NawsReplyThenSize ==
  /\ \A i \in DOMAIN dispatched :
       dispatched[i].hand = <<HWindowSize>>
         => /\ Len(dispatched[i].wire) = 2
            /\ Len(dispatched[i].wire[1].data) = 3
  /\ \A i \in DOMAIN wire :
       wire[i].data = <<IAC, WILL, NegotiateAboutWindowSize>>
         => /\ i < Len(wire)
            /\ wire[i + 1].data \in
                 {<<IAC, SB, NegotiateAboutWindowSize>>
                    \o WindowBytes(size[1], size[2]) \o <<IAC, SE>> :
                  size \in WindowSizes}

\* C18 as stated: after Close, and after a Read has surfaced a stream error
\* (end-of-stream, a failed write, a closed transport), the connection is
\* not ready and the transport is closed.
C18_NotReadyAfterStreamError ==
  (\/ closed
   \/ eof
   \/ ret.op = "Read" /\ ret.err \in {ErrEOF, ErrWrite, ErrClosed})
    => state = stateNotReady /\ closed

\* C18, amended: the connection is not ready exactly from Close on: every
\* Read and Write called after Close returns 0 and the not-ready error and
\* touches the transport no more. A stream error surfaced by Read leaves the
\* connection ready and the transport open, and Close then succeeds.
C18_NotReadyAfterClose ==
  /\ closed => state = stateNotReady
  /\ ~closed => state = stateData
  /\ (ret.op \in {"Read", "Write"} /\ ret.afterClose)
       => /\ ret.n = 0 /\ ret.err = ErrNotReady
          /\ ret.wire = <<>> /\ ret.reads = 0
  /\ (ret.op = "Close" /\ ~ret.afterClose) => ret.err = ErrNil

\* The stream ended while the connection was open, Close was called after
\* that, and a Write after Close was refused.
C18_Witness ==
  /\ eof /\ closed /\ state = stateNotReady
  /\ ret.op = "Write" /\ ret.afterClose /\ ret.err = ErrNotReady

\* The input is one whole block IAC SB <option> ... IAC SE for an option
\* that is not in the table or has no sbHandler.
C19_UnhandledBlock(input, opts) ==
  /\ Len(input) >= 5 /\ SubSeq(input, 1, 2) = <<IAC, SB>>
  /\ BlockEnd(input, 3, FALSE) = Len(input)
  /\ \/ input[3] \notin DOMAIN opts
     \/ opts[input[3]].sbHandler = NilHandler

\* C19: IAC WONT X and IAC DONT X for any X, and a whole block for an
\* option that is unconfigured or has no sbHandler, cause no transport
\* write, no handler call, no output and no error, and end in stateData.
C19_NoAnswerNoEffect ==
  (/\ pc.via = "direct" /\ pc.pre = stateData
   /\ \/ Len(pc.input) = 3 /\ pc.input[1] = IAC
         /\ pc.input[2] \in {WONT, DONT}
      \/ C19_UnhandledBlock(pc.input, pc.opts))
    => /\ pc.wire = <<>>
       /\ Handlers(pc.disp) = {}
       /\ pc.out = <<>>
       /\ pc.err = ErrNil /\ ~pc.panic
       /\ pc.post = stateData

\* C20: what the handlers write is one frame IAC SB <option> [<operation>]
\* <payload> IAC SE, the operation byte left out exactly for NONE (the
\* window size report). A block IAC SB 24 SEND IAC SE is answered with
\* IAC SB 24 IS <TERM> IAC SE when TERM is set and with nothing when it is
\* not, IAC SB 32 SEND IAC SE with IAC SB 32 IS "115200,115200" IAC SE, and
\* a block with IS for either option with nothing.
C20_SubnegotiationReplies ==
  (pc.via = "direct" /\ pc.pre = stateData)
    => /\ pc.input = <<IAC, SB, 24, 1, IAC, SE>>
            => WireData(pc.wire)
                 = IF pc.term = NoTerm THEN <<>>
                   ELSE <<<<IAC, SB, 24, 0>> \o pc.term \o <<IAC, SE>>>>
       /\ pc.input = <<IAC, SB, 32, 1, IAC, SE>>
            => WireData(pc.wire)
                 = <<<<IAC, SB, 32, 0, 49, 49, 53, 50, 48, 48, 44,
                       49, 49, 53, 50, 48, 48, IAC, SE>>>>
       /\ pc.input \in {<<IAC, SB, 24, 0, 120, IAC, SE>>,
                        <<IAC, SB, 32, 0, IAC, SE>>}
            => pc.wire = <<>> /\ Handlers(pc.disp) # {}
       /\ \A i \in DOMAIN pc.disp :
            pc.disp[i].hand = <<HWindowSize>>
              => /\ Len(pc.disp[i].wire) = 2
                 /\ pc.disp[i].wire[2].data
                      = <<IAC, SB, 31>> \o winSize \o <<IAC, SE>>

\* The terminal type was asked for with TERM set to "x" and sent.
C20_Witness ==
  /\ pc.via = "direct" /\ pc.pre = stateData
  /\ pc.input = <<IAC, SB, TerminalType, SEND, IAC, SE>>
  /\ pc.term = <<120>>
  /\ WireData(pc.wire) = <<<<255, 250, 24, 0, 120, 255, 240>>>>
  /\ pc.err = ErrNil /\ pc.post = stateData

\* C21: no plain data is lost whatever the size of the caller's buffers:
\* while the stream read so far holds no IAC, the bytes the Read calls have
\* returned are the first bytes of the stream, in order, and once a Read has
\* reported the end of the stream they are the whole of it.
C21_NoDataLost ==
  IAC \notin Range(raw)
    => /\ Len(delivered) <= Len(raw)
       /\ delivered = SubSeq(raw, 1, Len(delivered))
       /\ (ret.op = "Read" /\ ret.sawEOF) => delivered = raw

\* A negotiation reply: the whole buffer of a dispatched command, the verb
\* byte replaced.
C22_Reply(data) ==
  \E j \in DOMAIN dispatched :
    LET command == dispatched[j].data IN
    /\ Len(data) = Len(command) /\ Len(data) >= 3
    /\ data[2] \in {WILL, WONT, DO, DONT}
    /\ \A k \in DOMAIN data : k # 2 => data[k] = command[k]

\* One whole frame IAC SB ... IAC SE.
C22_Frame(data) ==
  /\ Len(data) >= 5 /\ SubSeq(data, 1, 2) = <<IAC, SB>>
  /\ SubSeq(data, Len(data) - 1, Len(data)) = <<IAC, SE>>

\* C22: with Read running beside Write and SetWindowSize, every write call
\* the transport gets carries the bytes of one Write, one whole negotiation
\* reply or one whole frame, so in every interleaving the bytes of a control
\* message are contiguous on the wire and application data never falls
\* inside one.
C22_ControlMessagesWhole ==
  \A i \in DOMAIN wire :
    \/ wire[i].data \in AppData
    \/ C22_Reply(wire[i].data)
    \/ C22_Frame(wire[i].data)

\* A Write of application data fell between the reply IAC WILL 31 and the
\* window size frame of the same IAC DO 31.
C22_Witness ==
  \E i \in DOMAIN wire :
    /\ i + 2 <= Len(wire)
    /\ wire[i].data = <<IAC, WILL, NegotiateAboutWindowSize>>
    /\ wire[i + 1].data \in AppData
    /\ IsWindowFrame(wire[i + 2].data)
    /\ C22_Frame(wire[i + 2].data)

====
